---------------------------- MODULE Spec2Model ----------------------------
(***************************************************************************)
(* A model of uhub's buffering layer (src/src/hubio.c) and of its          *)
(* administrative command dispatcher (src/src/core/commands.c).            *)
(*                                                                         *)
(* The specifications share the variables:                                 *)
(*   SpecRecvq  the receive buffer (hub_recvq_set / hub_recvq_get)         *)
(*   SpecSendq  one send queue under hub_sendq_add / hub_sendq_send        *)
(*   SpecSendqLife  the same with hub_sendq_remove called from outside and *)
(*              hub_sendq_destroy                                          *)
(*   SpecSendqFair  SpecSendq with drains that make progress guaranteed    *)
(*   SpecCmd    command_dipatcher and the command handlers                 *)
(* Each leaves the other parts' variables unchanged.                       *)
(*                                                                         *)
(* Text is a TLA+ string, read as the sequence of its characters (Len,     *)
(* SubSeq and \o apply to it); a byte of an outbound message is the pair   *)
(* <<message, index>>, so that every byte of every message is              *)
(* distinguishable on the wire.                                            *)
(***************************************************************************)
EXTENDS Integers, Sequences, FiniteSets, TLC

VARIABLES
    \* struct hub_recvq and the record of the last calls made on it
    rq_buf, rq_size, rq_log,
    \* the adc_message objects, struct hub_sendq, and what the write
    \* function has seen; of the last recorded drain, sq_ret is what it
    \* returned, sq_log its calls of the write function as <<len, ret>>, and
    \* sq_seen the list and offset it found and the list it left
    msgs, sq_queue, sq_size, sq_offset, sq_ret, sq_log, sq_seen,
    enqueued, wire, w_calls,
    \* whether the queue still exists, the enqueued messages that were not
    \* cancelled, whether a head was cancelled, and whether msg->length was
    \* read from a released message
    sq_live, kept, head_cancelled, stale_read,
    \* the hub: its users, ACL store and status flag, and the last dispatch
    hub_status, users, acl, last, calls

rq_vars  == <<rq_buf, rq_size, rq_log>>
sq_vars  == <<msgs, sq_queue, sq_size, sq_offset, sq_ret, sq_log, sq_seen,
              enqueued, wire, w_calls,
              sq_live, kept, head_cancelled, stale_read>>
cmd_vars == <<hub_status, users, acl, last, calls>>
vars     == <<rq_buf, rq_size, rq_log,
              msgs, sq_queue, sq_size, sq_offset, sq_ret, sq_log, sq_seen,
              enqueued, wire, w_calls,
              sq_live, kept, head_cancelled, stale_read,
              hub_status, users, acl, last, calls>>

NULL == "NULL"

Min(a, b) == IF a <= b THEN a ELSE b

\* s without its first n elements
Drop(s, n) == SubSeq(s, n + 1, Len(s))

\* the first n elements of s (all of s when it is shorter)
Take(s, n) == SubSeq(s, 1, Min(n, Len(s)))

IsPrefix(s, t) == Len(s) <= Len(t) /\ SubSeq(t, 1, Len(s)) = s

\* the last n elements of s (all of s when it is shorter)
LastN(s, n) == IF Len(s) <= n THEN s ELSE SubSeq(s, Len(s) - n + 1, Len(s))

(***************************************************************************)
(*                        Receive buffer (hubio.c)                         *)
(***************************************************************************)

\* longest chunk handed to hub_recvq_set
MaxBuf == 2

\* the byte values chunks are drawn from
ByteVals == {0, 1}

\* rq_log keeps the last three calls and what they returned
History(log) == LastN(log, 3)

Chunks == UNION {[1..n -> ByteVals] : n \in 0..MaxBuf}

\* a null q->buf: a value that is no chunk
NULL_BUF == <<-1>>

\* hub_recvq_create: a zeroed struct
hub_recvq_create == [buf |-> NULL_BUF, size |-> 0]

\* hub_recvq_get(q, buf, bufsize) with bufsize >= q->size (the assert):
\* the bytes copied out, the return value and the queue afterwards
hub_recvq_get(q) ==
    IF q.size # 0
    THEN [out |-> SubSeq(q.buf, 1, q.size), ret |-> q.size,
          q |-> [buf |-> NULL_BUF, size |-> 0]]
    ELSE [out |-> <<>>, ret |-> 0, q |-> q]

\* a variant of hub_recvq_set that appends to the held chunk
hub_recvq_set_append(q, buf, malloc_ok) ==
    LET old == IF q.buf = NULL_BUF THEN <<>> ELSE q.buf
        all == old \o buf
    IN  IF Len(all) = 0 \/ ~malloc_ok
        THEN [ret |-> 0, q |-> [buf |-> NULL_BUF, size |-> 0]]
        ELSE [ret |-> Len(buf), q |-> [buf |-> all, size |-> Len(all)]]

\* hub_recvq_set(q, buf, bufsize): malloc_ok is whether hub_malloc returns
\* memory for the copy
hub_recvq_set(q, buf, malloc_ok) ==
    LET q1 == IF q.buf # NULL_BUF THEN [buf |-> NULL_BUF, size |-> 0] ELSE q
    IN  IF Len(buf) = 0 THEN [ret |-> 0, q |-> q1]
        ELSE IF ~malloc_ok THEN [ret |-> 0, q |-> [q1 EXCEPT !.buf = NULL_BUF]]
        ELSE [ret |-> Len(buf), q |-> [buf |-> buf, size |-> Len(buf)]]

RqInit ==
    /\ rq_buf = hub_recvq_create.buf
    /\ rq_size = hub_recvq_create.size
    /\ rq_log = <<>>

RecvqSet(buf, malloc_ok) ==
    \E r \in {hub_recvq_set([buf |-> rq_buf, size |-> rq_size], buf, malloc_ok)} :
        /\ rq_buf' = r.q.buf
        /\ rq_size' = r.q.size
        /\ rq_log' = History(Append(rq_log,
                        [op |-> "set", arg |-> buf, ret |-> r.ret, out |-> <<>>]))

RecvqGet ==
    \E r \in {hub_recvq_get([buf |-> rq_buf, size |-> rq_size])} :
        /\ rq_buf' = r.q.buf
        /\ rq_size' = r.q.size
        /\ rq_log' = History(Append(rq_log,
                        [op |-> "get", arg |-> <<>>, ret |-> r.ret, out |-> r.out]))

RecvqSetStep == \E buf \in Chunks, malloc_ok \in BOOLEAN : RecvqSet(buf, malloc_ok)

RqNext ==
    \/ RecvqSetStep /\ UNCHANGED <<sq_vars, cmd_vars>>
    \/ RecvqGet /\ UNCHANGED <<sq_vars, cmd_vars>>

(***************************************************************************)
(*                          Send queue (hubio.c)                           *)
(***************************************************************************)

\* number of adc_message objects constructed in a run
MaxMsgs == 2

\* longest message, in bytes
MaxLen == 2

\* number of hub_sendq_add calls in a run
MaxEnq == 2

MsgIds == 1..MaxMsgs

\* what one call of the write function is willing to take: -1 is an error,
\* 0 is "would block", c > 0 accepts up to c bytes
Caps == -1..MaxLen

\* what may have been written over msg->length once the message has been
\* released; 0 stands for every value that is not the old length
StaleLengths == {0}

\* msg->cache: byte i of message m
cache(m, ms) == [i \in 1..ms[m].length |-> <<m, i>>]

\* adc_msg_construct: a new message, held by its creator
adc_msg_construct(ms, m, len) ==
    [ms EXCEPT ![m] = [state |-> "live", length |-> len, references |-> 1]]

\* adc_msg_incref: one more holder
adc_msg_incref(ms, m) ==
    [ms EXCEPT ![m].references = @ + 1]

\* adc_msg_free: one holder less; the last one releases the memory
adc_msg_free(ms, m) ==
    IF ms[m].references > 1
    THEN [ms EXCEPT ![m].references = @ - 1]
    ELSE [ms EXCEPT ![m].references = 0, ![m].state = "freed"]

\* a read of msg->length: of a released message it is undefined
msg_length(ms, m, stale) ==
    IF ms[m].state = "freed" THEN stale ELSE ms[m].length

\* size_t arithmetic is modulo 2^w; the model keeps the representative
\* a - b, a negative r standing for 2^w + r
size_sub(a, b) == a - b

\* list_remove: the list without the first occurrence of m
RECURSIVE list_remove(_, _)
list_remove(l, m) ==
    IF l = <<>> THEN <<>>
    ELSE IF Head(l) = m THEN Tail(l)
    ELSE <<Head(l)>> \o list_remove(Tail(l), m)

\* occurrences of m in l
RECURSIVE list_count(_, _)
list_count(l, m) ==
    IF l = <<>> THEN 0
    ELSE (IF Head(l) = m THEN 1 ELSE 0) + list_count(Tail(l), m)

\* hub_sendq_create: a zeroed struct with an empty list
hub_sendq_create == [queue |-> <<>>, size |-> 0, offset |-> 0]

\* a variant of hub_sendq_add that puts the message at the front
hub_sendq_add_front(q, ms, m) ==
    [q  |-> [q EXCEPT !.queue = <<m>> \o @, !.size = @ + ms[m].length],
     ms |-> adc_msg_incref(ms, m)]

\* hub_sendq_add(q, msg)
hub_sendq_add(q, ms, m) ==
    [q  |-> [q EXCEPT !.queue = Append(@, m), !.size = @ + ms[m].length],
     ms |-> adc_msg_incref(ms, m)]

\* a variant of hub_sendq_remove that leaves the offset where it is
hub_sendq_remove_keep_offset(q, ms, m, stale) ==
    LET ms1 == adc_msg_free(ms, m)
    IN  [q  |-> [queue  |-> list_remove(q.queue, m),
                 size   |-> size_sub(q.size, msg_length(ms1, m, stale)),
                 offset |-> q.offset],
         ms |-> ms1,
         stale_read |-> ms1[m].state = "freed"]

\* hub_sendq_remove(q, msg): the message is released before its length is
\* read; stale_read says whether that read was of a released message
hub_sendq_remove(q, ms, m, stale) ==
    LET ms1 == adc_msg_free(ms, m)
    IN  [q  |-> [queue  |-> list_remove(q.queue, m),
                 size   |-> size_sub(q.size, msg_length(ms1, m, stale)),
                 offset |-> 0],
         ms |-> ms1,
         stale_read |-> ms1[m].state = "freed"]

\* one call w(data, &msg->cache[offset], len) of the caller's write function
WriteFn(cap, len) == IF cap <= 0 THEN cap ELSE Min(cap, len)

\* what a call of the write function offered len bytes can return
WriteResults(len) == {WriteFn(cap, len) : cap \in Caps}

\* what the read of msg->length in hub_sendq_remove can find when the
\* release before it was the last one: the old length if the memory is as
\* it was, or what was written over it; otherwise nothing is undefined
StaleReads(ms, m) ==
    IF adc_msg_free(ms, m)[m].state = "freed"
    THEN {ms[m].length} \cup StaleLengths
    ELSE {0}

\* the loop of hub_sendq_send: the states it can end in, one for each way
\* the calls of the write function and the reads of released memory can go
RECURSIVE SendLoop(_)
SendLoop(st) ==
    IF st.q.queue = <<>> THEN {st}
    ELSE
      LET m   == Head(st.q.queue)
          len == st.ms[m].length - st.q.offset
          After(ret) ==
            LET log == Append(st.log, <<len, ret>>)
            IN  IF ret <= 0 THEN {[st EXCEPT !.log = log]}
                ELSE
                  LET off  == st.q.offset + ret
                      sent == [st EXCEPT
                                 !.q.offset = off,
                                 !.bytes_sent = @ + ret,
                                 !.wire = @ \o SubSeq(cache(m, st.ms),
                                                      st.q.offset + 1, off),
                                 !.log = log]
                  IN  IF off < st.ms[m].length THEN {sent}
                      ELSE UNION {
                             SendLoop([sent EXCEPT
                                         !.q = r.q, !.ms = r.ms,
                                         !.stale_read = @ \/ r.stale_read])
                             : r \in {hub_sendq_remove(sent.q, sent.ms, m, stale) :
                                        stale \in StaleReads(sent.ms, m)} }
      IN  UNION { After(ret) : ret \in WriteResults(len) }

\* a variant of hub_sendq_send that returns ret, the result of its last call
\* of the write function, in place of bytes_sent
hub_sendq_send_returns_ret(q, ms) ==
    {[st EXCEPT !.bytes_sent = IF st.log = <<>> THEN 0
                               ELSE st.log[Len(st.log)][2]] :
        st \in SendLoop([q |-> q, ms |-> ms, bytes_sent |-> 0, wire |-> <<>>,
                         log |-> <<>>, stale_read |-> FALSE])}

\* hub_sendq_send(q, w, data)
hub_sendq_send(q, ms) ==
    SendLoop([q |-> q, ms |-> ms, bytes_sent |-> 0, wire |-> <<>>, log |-> <<>>,
              stale_read |-> FALSE])

\* list_clear(q->queue, &clear_send_queue_callback): adc_msg_free on every
\* element of the list
RECURSIVE clear_send_queue(_, _)
clear_send_queue(l, ms) ==
    IF l = <<>> THEN ms
    ELSE clear_send_queue(Tail(l), adc_msg_free(ms, Head(l)))

\* hub_sendq_destroy(q): the list is cleared and the struct released; what
\* the struct held stays where it was, unreadable
hub_sendq_destroy(q, ms) ==
    [q  |-> [q EXCEPT !.queue = <<>>],
     ms |-> clear_send_queue(q.queue, ms)]

\* hub_sendq_is_empty
hub_sendq_is_empty(q) == q.size = 0

\* hub_sendq_get_bytes
hub_sendq_get_bytes(q) == size_sub(q.size, q.offset)

TheQueue == [queue |-> sq_queue, size |-> sq_size, offset |-> sq_offset]

\* references to m held outside the send queue
OutsideRefs(m) == msgs[m].references - list_count(sq_queue, m)

SqInit ==
    /\ msgs = [m \in MsgIds |-> [state |-> "none", length |-> 0, references |-> 0]]
    /\ sq_queue = hub_sendq_create.queue
    /\ sq_size = hub_sendq_create.size
    /\ sq_offset = hub_sendq_create.offset
    /\ sq_ret = 0
    /\ sq_log = <<>>
    /\ sq_seen = [queue |-> <<>>, offset |-> 0, left |-> <<>>]
    /\ enqueued = <<>>
    /\ wire = <<>>
    /\ w_calls = 0
    /\ sq_live = TRUE
    /\ kept = <<>>
    /\ head_cancelled = FALSE
    /\ stale_read = FALSE

\* a message is built somewhere in the hub
MsgConstruct(m, len) ==
    /\ msgs[m].state = "none"
    /\ \A k \in MsgIds : k < m => msgs[k].state # "none"
    /\ msgs' = adc_msg_construct(msgs, m, len)
    /\ UNCHANGED <<sq_queue, sq_size, sq_offset, sq_ret, sq_log, sq_seen,
                   enqueued, wire, w_calls,
                   sq_live, kept, head_cancelled, stale_read>>

\* a holder other than the queue drops its reference
MsgFree(m) ==
    /\ msgs[m].state = "live"
    /\ OutsideRefs(m) > 0
    /\ msgs' = adc_msg_free(msgs, m)
    /\ UNCHANGED <<sq_queue, sq_size, sq_offset, sq_ret, sq_log, sq_seen,
                   enqueued, wire, w_calls,
                   sq_live, kept, head_cancelled, stale_read>>

\* a holder of m queues it for this connection
SendqAdd(m) ==
    /\ sq_live
    /\ msgs[m].state = "live"
    /\ OutsideRefs(m) > 0
    /\ Len(enqueued) < MaxEnq
    /\ \E r \in {hub_sendq_add(TheQueue, msgs, m)} :
           /\ sq_queue' = r.q.queue
           /\ sq_size' = r.q.size
           /\ sq_offset' = r.q.offset
           /\ msgs' = r.ms
    /\ enqueued' = Append(enqueued, m)
    /\ kept' = Append(kept, m)
    /\ UNCHANGED <<sq_ret, sq_log, sq_seen, wire, w_calls,
                   sq_live, head_cancelled, stale_read>>

\* the event loop drains the queue
Drain(observed) ==
    /\ sq_live
    /\ \E r \in hub_sendq_send(TheQueue, msgs) :
        /\ sq_queue' = r.q.queue
        /\ sq_size' = r.q.size
        /\ sq_offset' = r.q.offset
        /\ msgs' = r.ms
        /\ wire' = wire \o r.wire
        /\ stale_read' = (stale_read \/ r.stale_read)
        /\ IF observed
           THEN /\ sq_ret' = r.bytes_sent
                /\ sq_log' = r.log
                /\ sq_seen' = [queue |-> sq_queue, offset |-> sq_offset,
                               left |-> r.q.queue]
                /\ w_calls' = w_calls
                      + Cardinality({i \in 1..Len(r.log) : r.log[i][2] > 0})
           ELSE UNCHANGED <<sq_ret, sq_log, sq_seen, w_calls>>
        /\ UNCHANGED <<enqueued, sq_live, kept, head_cancelled>>

\* a drain whose calls of the write function and return value are recorded
SendqSend == Drain(TRUE)

\* a drain of which only the bytes on the wire are recorded
SendqSendQuiet == Drain(FALSE)

MsgConstructStep == \E m \in MsgIds, len \in 1..MaxLen : MsgConstruct(m, len)
MsgFreeStep      == \E m \in MsgIds : MsgFree(m)
SendqAddStep     == \E m \in MsgIds : SendqAdd(m)

SqNext ==
    \/ MsgConstructStep /\ UNCHANGED <<rq_vars, cmd_vars>>
    \/ MsgFreeStep /\ UNCHANGED <<rq_vars, cmd_vars>>
    \/ SendqAddStep /\ UNCHANGED <<rq_vars, cmd_vars>>
    \/ SendqSend /\ UNCHANGED <<rq_vars, cmd_vars>>

\* a queued message is cancelled: hub_sendq_remove called on it from outside
\* hub_sendq_send
SendqRemove(m) ==
    /\ sq_live
    /\ list_count(sq_queue, m) > 0
    /\ \E stale \in StaleReads(msgs, m) :
         \E r \in {hub_sendq_remove(TheQueue, msgs, m, stale)} :
           /\ sq_queue' = r.q.queue
           /\ sq_size' = r.q.size
           /\ sq_offset' = r.q.offset
           /\ msgs' = r.ms
           /\ stale_read' = (stale_read \/ r.stale_read)
           /\ kept' = Take(kept, Len(kept) - Len(sq_queue)) \o r.q.queue
    /\ head_cancelled' = (head_cancelled \/ Head(sq_queue) = m)
    /\ UNCHANGED <<sq_ret, sq_log, sq_seen, enqueued, wire, w_calls, sq_live>>

\* the connection is torn down
SendqDestroy ==
    /\ sq_live
    /\ \E r \in {hub_sendq_destroy(TheQueue, msgs)} :
           /\ sq_queue' = r.q.queue
           /\ sq_size' = r.q.size
           /\ sq_offset' = r.q.offset
           /\ msgs' = r.ms
    /\ sq_live' = FALSE
    /\ UNCHANGED <<sq_ret, sq_log, sq_seen, enqueued, wire, w_calls,
                   kept, head_cancelled, stale_read>>

\* a drain in which the write function accepts at least one byte
DrainAccepting == SendqSend /\ Len(wire') > Len(wire)

SendqRemoveStep == \E m \in MsgIds : SendqRemove(m)

\* the send queue with cancellation and teardown
SqLifeNext ==
    \/ MsgConstructStep /\ UNCHANGED <<rq_vars, cmd_vars>>
    \/ MsgFreeStep /\ UNCHANGED <<rq_vars, cmd_vars>>
    \/ SendqAddStep /\ UNCHANGED <<rq_vars, cmd_vars>>
    \/ SendqSendQuiet /\ UNCHANGED <<rq_vars, cmd_vars>>
    \/ SendqRemoveStep /\ UNCHANGED <<rq_vars, cmd_vars>>
    \/ SendqDestroy /\ UNCHANGED <<rq_vars, cmd_vars>>

(***************************************************************************)
(*                     Command dispatcher (commands.c)                     *)
(***************************************************************************)

\* users connected to the hub at the start
NumUsers == 2

\* most arguments a line carries
MaxArgs == 2

Users == 1..NumUsers

\* enum user_credentials, lowest first
cred_none     == 0
cred_guest    == 1
cred_operator == 2
cred_super    == 3
cred_admin    == 4

Creds == cred_none..cred_admin

\* #ifdef DEBUG / #define CRASH_DEBUG: the model is of the release build
CRASH_DEBUG == FALSE

\* the character at 1-based position i of s
CharAt(s, i) == SubSeq(s, i, i)

\* uhub_itoa: the decimal digits of n >= 0
RECURSIVE uhub_itoa(_)
uhub_itoa(n) ==
    LET d == CharAt("0123456789", (n % 10) + 1)
    IN  IF n < 10 THEN d ELSE uhub_itoa(n \div 10) \o d

\* snprintf(temp, size, ...): the formatted text cut to size - 1 characters
snprintf(size, text) == Take(text, size - 1)

\* strstr: the 1-based position of the first occurrence of t in s, 0 if none
strstr(s, t) ==
    LET hits == {i \in 1..(Len(s) - Len(t) + 1) : SubSeq(s, i, i + Len(t) - 1) = t}
    IN  IF hits = {} THEN 0 ELSE CHOOSE i \in hits : \A j \in hits : i <= j

\* the tokens split_string appends to the list
RECURSIVE split_tokens(_, _, _)
split_tokens(string, split, allow_empty) ==
    LET i    == strstr(string, split)
        tok  == IF i > 0 THEN SubSeq(string, 1, i - 1) ELSE string
        keep == IF tok # "" \/ allow_empty THEN <<tok>> ELSE <<>>
    IN  IF i = 0 THEN keep
        ELSE keep \o split_tokens(Drop(string, i - 1 + Len(split)), split, allow_empty)

\* split_string(string, split, list, allow_empty): the number of tokens
\* (-1 for an empty string) and the list
split_string(string, split, allow_empty) ==
    IF string = "" \/ split = "" THEN [n |-> -1, list |-> <<>>]
    ELSE LET l == split_tokens(string, split, allow_empty)
         IN  [n |-> Len(l), list |-> l]

\* a null struct hub_command pointer
NULL_CMD == [message |-> "", prefix |-> "", prefix_len |-> 0, args |-> <<>>]

\* a null struct hub_user pointer
NULL_USER == 0

\* a variant of command_create that takes the first token whole as the prefix
command_create_whole_token(message) ==
    LET r == split_string(message, "\\s", FALSE)
    IN  IF r.n <= 0 THEN NULL_CMD
        ELSE [message |-> message, prefix |-> Head(r.list),
              prefix_len |-> Len(Head(r.list)), args |-> Tail(r.list)]

\* command_create(message).  The allocations of commands.c are taken to
\* succeed: it uses the results of hub_strdup, adc_msg_escape and
\* adc_msg_construct unchecked.
command_create(message) ==
    LET r == split_string(message, "\\s", FALSE)
    IN  IF r.n <= 0 THEN NULL_CMD
        ELSE
          LET prefix == Head(r.list)
          IN  IF Len(prefix) >= 2
              THEN [message |-> message, prefix |-> Drop(prefix, 1),
                    prefix_len |-> Len(prefix) - 1, args |-> Tail(r.list)]
              ELSE NULL_CMD

\* list_get_first
list_get_first(l) == IF l = <<>> THEN NULL ELSE Head(l)

\* one call of an external collaborator
Call(op, user, text) == [op |-> op, user |-> user, text |-> text]

\* a variant of send_message that routes to every connected user
send_message_broadcast(hub, user, message) ==
    [hub EXCEPT !.calls = @ \o
        [i \in 1..NumUsers |-> Call("route_to_user", i, message)]]

\* send_message: the status text goes to route_to_user for `user`
send_message(hub, user, message) ==
    [hub EXCEPT !.calls = Append(@, Call("route_to_user", user, message))]

\* what a function hands back: the hub afterwards and the return value
Done(hub, rc) == [hub |-> hub, rc |-> rc]

\* a result together with the name of the function that produced it
Ran(r, name) == [hub |-> r.hub, rc |-> r.rc, ran |-> name]

command_access_denied(hub, user, cmd) ==
    Done(send_message(hub, user,
            snprintf(128, "*** " \o cmd.prefix \o ": Access denied.")), 0)

command_not_found(hub, user, cmd) ==
    Done(send_message(hub, user,
            snprintf(128, "*** " \o cmd.prefix \o ": Command not found")), 0)

command_status_user_not_found(hub, user, cmd, nick) ==
    Done(send_message(hub, user,
            snprintf(128, "*** " \o cmd.prefix \o ": No user \"" \o nick \o "\"")), 0)

\* the switch of command_get_syntax
Placeholder(c) ==
    CASE c = "n" -> "<nick>"
      [] c = "c" -> "<cid>"
      [] c = "a" -> "<addr>"
      [] OTHER   -> ""

\* the loop of command_get_syntax, from index n (0-based) on
RECURSIVE syntax_from(_, _)
syntax_from(args, n) ==
    IF n >= Len(args) THEN ""
    ELSE (IF n > 0 THEN " " ELSE "") \o Placeholder(CharAt(args, n + 1))
         \o syntax_from(args, n + 1)

\* a variant of command_get_syntax that always shows one placeholder more
command_get_syntax_extra(handler) ==
    IF handler.args # NULL THEN syntax_from(handler.args \o "n", 0) ELSE ""

command_get_syntax(handler) ==
    IF handler.args # NULL THEN syntax_from(handler.args, 0) ELSE ""

command_arg_mismatch(hub, user, cmd, handler) ==
    Done(send_message(hub, user,
            snprintf(256, "*** " \o cmd.prefix \o ": Use: !" \o cmd.prefix \o " "
                          \o command_get_syntax(handler))), 0)

command_status(hub, user, cmd, message) ==
    Done(send_message(hub, user,
            snprintf(1024, "*** " \o cmd.prefix \o ": " \o message)), 0)

\* static struct commands_handler command_handlers[], the terminating row
\* included
command_handlers ==
    << [prefix |-> "help",     length |-> 4, args |-> NULL, cred |-> cred_guest,
        handler |-> "command_help",     description |-> "Show this help message."],
       [prefix |-> "stats",    length |-> 5, args |-> NULL, cred |-> cred_super,
        handler |-> "command_stats",    description |-> "Show hub statistics."],
       [prefix |-> "version",  length |-> 7, args |-> NULL, cred |-> cred_guest,
        handler |-> "command_version",  description |-> "Show hub version info."],
       [prefix |-> "uptime",   length |-> 6, args |-> NULL, cred |-> cred_guest,
        handler |-> "command_uptime",   description |-> "Display hub uptime info."],
       [prefix |-> "kick",     length |-> 4, args |-> "n",  cred |-> cred_operator,
        handler |-> "command_kick",     description |-> "Kick a user"],
       [prefix |-> "ban",      length |-> 3, args |-> "n",  cred |-> cred_operator,
        handler |-> "command_ban",      description |-> "Ban a user"],
       [prefix |-> "unban",    length |-> 5, args |-> "n",  cred |-> cred_operator,
        handler |-> "command_unban",    description |-> "Lift ban on a user"],
       [prefix |-> "reload",   length |-> 6, args |-> NULL, cred |-> cred_admin,
        handler |-> "command_reload",   description |-> "Reload configuration files."],
       [prefix |-> "shutdown", length |-> 8, args |-> NULL, cred |-> cred_admin,
        handler |-> "command_shutdown", description |-> "Shutdown hub."],
       [prefix |-> "myip",     length |-> 4, args |-> NULL, cred |-> cred_guest,
        handler |-> "command_myip",     description |-> "Show your own IP."],
       [prefix |-> "getip",    length |-> 5, args |-> "n",  cred |-> cred_operator,
        handler |-> "command_getip",    description |-> "Show IP address for a user"] >>
    \o (IF CRASH_DEBUG
        THEN << [prefix |-> "crash", length |-> 5, args |-> NULL, cred |-> cred_admin,
                 handler |-> "command_crash", description |-> "Crash the hub (DEBUG)."] >>
        ELSE << >>)
    \o << [prefix |-> NULL, length |-> 0, args |-> NULL, cred |-> cred_none,
           handler |-> "command_help", description |-> ""] >>

\* the rows before the terminating one
Entries == {n \in 1..Len(command_handlers) : command_handlers[n].prefix # NULL}

\* strlen(handler->args) of a row that has args
MinArgs(handler) == IF handler.args = NULL THEN 0 ELSE Len(handler.args)

\* uman_get_user_by_nick: the connected user of that nickname, or none
uman_get_user_by_nick(hub, nick) ==
    LET found == {u \in Users : hub.users[u].connected /\ hub.users[u].nick = nick}
    IN  IF found = {} THEN NULL_USER ELSE CHOOSE u \in found : TRUE

\* hub_disconnect_user(hub, target, quit_kicked)
hub_disconnect_user(hub, target) ==
    [hub EXCEPT !.users[target].connected = FALSE,
                !.calls = Append(@, Call("hub_disconnect_user", target, "quit_kicked"))]

\* acl_user_ban_nick(hub->acl, target->id.nick)
acl_user_ban_nick(hub, target) ==
    [hub EXCEPT !.acl.nicks = @ \cup {hub.users[target].nick},
                !.calls = Append(@, Call("acl_user_ban_nick", target,
                                         hub.users[target].nick))]

\* acl_user_ban_cid(hub->acl, target->id.cid)
acl_user_ban_cid(hub, target) ==
    [hub EXCEPT !.acl.cids = @ \cup {hub.users[target].cid},
                !.calls = Append(@, Call("acl_user_ban_cid", target,
                                         hub.users[target].cid))]

\* ip_convert_to_string(&user->net.ipaddr)
ip_convert_to_string(hub, u) == hub.users[u].addr

\* the PRODUCT and VERSION macros
PRODUCT == "uhub"
VERSION == "VERSION"

command_stats(hub, user, cmd) ==
    LET count == Cardinality({u \in Users : hub.users[u].connected})
        temp  == snprintf(128,
                    uhub_itoa(count) \o " users, peak: " \o uhub_itoa(hub.stats.count_peak)
                    \o ". Network (up/down): " \o uhub_itoa(hub.stats.net_tx \div 1024)
                    \o "/" \o uhub_itoa(hub.stats.net_rx \div 1024)
                    \o " KB/s, peak: " \o uhub_itoa(hub.stats.net_tx_peak \div 1024)
                    \o "/" \o uhub_itoa(hub.stats.net_rx_peak \div 1024) \o " KB/s")
    IN  command_status(hub, user, cmd, temp)

\* the loop of command_help, from row n on
RECURSIVE help_rows(_, _)
help_rows(n, credentials) ==
    IF command_handlers[n].prefix = NULL THEN ""
    ELSE (IF command_handlers[n].cred <= credentials
          THEN "!" \o command_handlers[n].prefix \o " - "
               \o command_handlers[n].description \o "\n"
          ELSE "")
         \o help_rows(n + 1, credentials)

\* a variant of the loop of command_help that lists every row
RECURSIVE help_rows_all(_)
help_rows_all(n) ==
    IF command_handlers[n].prefix = NULL THEN ""
    ELSE "!" \o command_handlers[n].prefix \o " - "
         \o command_handlers[n].description \o "\n"
         \o help_rows_all(n + 1)

\* a variant of command_help without the test of the credentials
command_help_unfiltered(hub, user, cmd) ==
    command_status(hub, user, cmd, "Available commands:\n" \o help_rows_all(1))

command_help(hub, user, cmd) ==
    command_status(hub, user, cmd,
        "Available commands:\n" \o help_rows(1, hub.users[user].credentials))

\* a variant of command_uptime that writes hours and minutes as they are
command_uptime_unpadded(hub, user, cmd, D) ==
    LET d  == D \div (24 * 3600)
        D1 == D % (24 * 3600)
        h  == D1 \div 3600
        D2 == D1 % 3600
        m  == D2 \div 60
        tmp == (IF d # 0
                THEN uhub_itoa(d) \o " day" \o (IF d # 1 THEN "s" ELSE "") \o ", "
                ELSE "")
               \o uhub_itoa(h) \o ":" \o uhub_itoa(m)
    IN  command_status(hub, user, cmd, tmp)

\* command_uptime; D is difftime(time(0), hub->tm_started)
command_uptime(hub, user, cmd, D) ==
    LET d  == D \div (24 * 3600)
        D1 == D % (24 * 3600)
        h  == D1 \div 3600
        D2 == D1 % 3600
        m  == D2 \div 60
        tmp == (IF d # 0
                THEN uhub_itoa(d) \o " day" \o (IF d # 1 THEN "s" ELSE "") \o ", "
                ELSE "")
               \o (IF h < 10 THEN "0" ELSE "") \o uhub_itoa(h) \o ":"
               \o (IF m < 10 THEN "0" ELSE "") \o uhub_itoa(m)
    IN  command_status(hub, user, cmd, tmp)

\* a variant of command_kick without the test for the invoking user
command_kick_no_self_check(hub, user, cmd) ==
    LET nick   == list_get_first(cmd.args)
        target == uman_get_user_by_nick(hub, nick)
    IN  IF target = NULL_USER THEN command_status_user_not_found(hub, user, cmd, nick)
        ELSE command_status(hub_disconnect_user(hub, target), user, cmd, nick)

command_kick(hub, user, cmd) ==
    LET nick   == list_get_first(cmd.args)
        target == uman_get_user_by_nick(hub, nick)
    IN  IF target = NULL_USER THEN command_status_user_not_found(hub, user, cmd, nick)
        ELSE IF target = user
             THEN command_status(hub, user, cmd, "Cannot kick yourself")
        ELSE command_status(hub_disconnect_user(hub, target), user, cmd, nick)

\* a variant of command_ban that registers the nickname ban alone
command_ban_nick_only(hub, user, cmd) ==
    LET nick   == list_get_first(cmd.args)
        target == uman_get_user_by_nick(hub, nick)
    IN  IF target = NULL_USER THEN command_status_user_not_found(hub, user, cmd, nick)
        ELSE IF target = user
             THEN command_status(hub, user, cmd, "Cannot kick/ban yourself")
        ELSE command_status(
                acl_user_ban_nick(hub_disconnect_user(hub, target), target),
                user, cmd, nick)

command_ban(hub, user, cmd) ==
    LET nick   == list_get_first(cmd.args)
        target == uman_get_user_by_nick(hub, nick)
    IN  IF target = NULL_USER THEN command_status_user_not_found(hub, user, cmd, nick)
        ELSE IF target = user
             THEN command_status(hub, user, cmd, "Cannot kick/ban yourself")
        ELSE command_status(
                acl_user_ban_cid(
                    acl_user_ban_nick(hub_disconnect_user(hub, target), target),
                    target),
                user, cmd, nick)

command_unban(hub, user, cmd) ==
    command_status(hub, user, cmd, "Not implemented")

command_reload(hub, user, cmd) ==
    command_status([hub EXCEPT !.status = "hub_status_restart"], user, cmd,
                   "Reloading configuration...")

command_shutdown(hub, user, cmd) ==
    command_status([hub EXCEPT !.status = "hub_status_shutdown"], user, cmd,
                   "Hub shutting down...")

command_version(hub, user, cmd) ==
    command_status(hub, user, cmd, "Powered by " \o PRODUCT \o "/" \o VERSION)

command_myip(hub, user, cmd) ==
    command_status(hub, user, cmd,
        snprintf(128, "Your address is \"" \o ip_convert_to_string(hub, user) \o "\""))

command_getip(hub, user, cmd) ==
    LET nick   == list_get_first(cmd.args)
        target == uman_get_user_by_nick(hub, nick)
    IN  IF target = NULL_USER THEN command_status_user_not_found(hub, user, cmd, nick)
        ELSE command_status(hub, user, cmd,
                snprintf(128, nick \o " has address \""
                              \o ip_convert_to_string(hub, target) \o "\""))

\* command_crash (CRASH_DEBUG builds): a call through a null pointer ends
\* the process
command_crash(hub, user, cmd) ==
    Done([hub EXCEPT !.status = "crashed"], 0)

\* handler->handler(hub, user, cmd)
call_handler(name, hub, user, cmd, D) ==
    CASE name = "command_help"     -> command_help(hub, user, cmd)
      [] name = "command_stats"    -> command_stats(hub, user, cmd)
      [] name = "command_version"  -> command_version(hub, user, cmd)
      [] name = "command_uptime"   -> command_uptime(hub, user, cmd, D)
      [] name = "command_kick"     -> command_kick(hub, user, cmd)
      [] name = "command_ban"      -> command_ban(hub, user, cmd)
      [] name = "command_unban"    -> command_unban(hub, user, cmd)
      [] name = "command_reload"   -> command_reload(hub, user, cmd)
      [] name = "command_shutdown" -> command_shutdown(hub, user, cmd)
      [] name = "command_myip"     -> command_myip(hub, user, cmd)
      [] name = "command_getip"    -> command_getip(hub, user, cmd)
      [] name = "command_crash"    -> command_crash(hub, user, cmd)

\* strncmp(a, b, n) = 0
strncmp_equal(a, b, n) == Take(a, n) = Take(b, n)

\* a variant of the match in command_dipatcher that compares only as many
\* characters as the parsed prefix has
prefix_matches_short(cmd, handler) ==
    strncmp_equal(cmd.prefix, handler.prefix, cmd.prefix_len)

\* the match in command_dipatcher: same length, same bytes
prefix_matches(cmd, handler) ==
    /\ cmd.prefix_len = handler.length
    /\ strncmp_equal(cmd.prefix, handler.prefix, handler.length)

\* the for loop of command_dipatcher from row n on: the first matching row,
\* 0 when the terminating row is reached
RECURSIVE scan_handlers(_, _)
scan_handlers(cmd, n) ==
    IF command_handlers[n].prefix = NULL THEN 0
    ELSE IF prefix_matches(cmd, command_handlers[n]) THEN n
    ELSE scan_handlers(cmd, n + 1)

\* the test of list_size(cmd->args) against strlen(handler->args)
args_suffice(cmd, handler) ==
    handler.args = NULL \/ Len(cmd.args) >= Len(handler.args)

\* a variant of the body run for a matched row that tests the argument
\* count before the credentials
run_matched_arity_first(hub, user, cmd, handler, D) ==
    IF ~args_suffice(cmd, handler)
    THEN Ran(command_arg_mismatch(hub, user, cmd, handler), "command_arg_mismatch")
    ELSE IF handler.cred <= hub.users[user].credentials
         THEN Ran(call_handler(handler.handler, hub, user, cmd, D), handler.handler)
    ELSE Ran(command_access_denied(hub, user, cmd), "command_access_denied")

\* a variant of the body run for a matched row without the test of the
\* credentials
run_matched_any_cred(hub, user, cmd, handler, D) ==
    IF args_suffice(cmd, handler)
    THEN Ran(call_handler(handler.handler, hub, user, cmd, D), handler.handler)
    ELSE Ran(command_arg_mismatch(hub, user, cmd, handler), "command_arg_mismatch")

\* the body run for a matched row
run_matched(hub, user, cmd, handler, D) ==
    IF handler.cred <= hub.users[user].credentials
    THEN IF args_suffice(cmd, handler)
         THEN Ran(call_handler(handler.handler, hub, user, cmd, D), handler.handler)
         ELSE Ran(command_arg_mismatch(hub, user, cmd, handler), "command_arg_mismatch")
    ELSE Ran(command_access_denied(hub, user, cmd), "command_access_denied")

\* command_dipatcher(hub, user, message): the hub afterwards, the return
\* value, the parsed command, the matched row (0: none) and the function
\* that produced the result
command_dipatcher(hub, user, message, D) ==
    LET cmd == command_create(message)
    IN  IF cmd = NULL_CMD
        THEN [hub |-> hub, rc |-> 1, cmd |-> NULL_CMD, entry |-> 0, ran |-> "none"]
        ELSE
          LET n == scan_handlers(cmd, 1)
          IN  IF n = 0
              THEN [hub |-> command_not_found(hub, user, cmd).hub, rc |-> 1,
                    cmd |-> cmd, entry |-> 0, ran |-> "command_not_found"]
              ELSE
                LET r == run_matched(hub, user, cmd, command_handlers[n], D)
                IN  [hub |-> r.hub, rc |-> r.rc, cmd |-> cmd, entry |-> n,
                     ran |-> r.ran]

(***************************************************************************)
(*                  The hub and the lines dispatched to it                 *)
(***************************************************************************)

\* the size of the status buffer of command_not_found
TEMP_SIZE == 128

\* the escaped space that separates the tokens of a chat line
Sep == "\\s"

\* a string of n copies of the character c
RECURSIVE Rep(_, _)
Rep(c, n) == IF n = 0 THEN "" ELSE c \o Rep(c, n - 1)

UserNick(u) == "n" \o uhub_itoa(u)
UserCid(u)  == "CID" \o uhub_itoa(u)
UserAddr(u) == "10.0.0." \o uhub_itoa(u)

\* a nickname no user has
Stranger == "zed"

\* first arguments: every user's nickname and one nobody has
Nicks == {UserNick(u) : u \in Users} \cup {Stranger}

\* k further arguments
RECURSIVE Extras(_)
Extras(k) == IF k = 0 THEN "" ELSE Sep \o "x" \o Extras(k - 1)

\* the argument parts of a line for a command that takes a nickname
NickArgs == {""} \cup {Sep \o n \o Extras(k) : n \in Nicks, k \in 0..(MaxArgs - 1)}

\* the argument parts of a line for the other names
PlainArgs == {Extras(k) : k \in 0..MaxArgs}

RegisteredNames == {command_handlers[n].prefix : n \in Entries}

\* names of rows that take arguments
NickNames == {command_handlers[n].prefix :
                n \in {e \in Entries : command_handlers[e].args # NULL}}

\* the longest prefix whose "not found" status fits the buffer whole, and
\* the shortest prefix that does not fit the buffer itself
FittingPrefix == Rep("a", TEMP_SIZE - 1 - Len("*** : Command not found"))
LongPrefix    == Rep("b", TEMP_SIZE - Len("*** "))

\* names that are no row's prefix: proper prefixes and extensions of
\* registered names, another case, another name, long names
OtherNames == {"hel", "helpx", "bann", "b", "Kick", "crash", "nosuch",
               "reloadx", "shutdow", FittingPrefix, LongPrefix}

\* chat lines: a marker and a name with arguments, lines whose first token
\* starts with another character, and lines that hold no command
Lines ==
    {"!" \o name \o a : name \in NickNames, a \in NickArgs}
    \cup {"!" \o name \o a : name \in RegisteredNames \ NickNames, a \in PlainArgs}
    \cup {"!" \o name : name \in OtherNames}
    \cup {"!" \o name \o a : name \in {"helpx", "nosuch"}, a \in PlainArgs}
    \cup {c \o name \o a : c \in {"+", "x"}, name \in {"help", "shutdown"},
                           a \in {""}}
    \cup {"xkick" \o Sep \o n : n \in Nicks}
    \cup {"", "!", "x", Sep, Sep \o Sep, "!" \o Sep \o "help",
          Sep \o "!help", "!kick" \o Sep \o Sep \o UserNick(1), "hello" \o Sep \o "all"}

\* readings of difftime(time(0), hub->tm_started), in seconds
ElapsedTimes == {0, 59, 60, 3599, 36000, 86340, 86399, 86400, 86461, 90061,
                 1036800}

\* only command_uptime reads the clock: for a line that cannot reach it one
\* reading stands for all
ClockFor(message) ==
    IF strstr(message, "uptime") > 0 THEN ElapsedTimes ELSE {0}

\* hub->users->count_peak and hub->stats, kept by other parts of the hub
HubStats == [count_peak |-> NumUsers, net_tx |-> 2048, net_rx |-> 1024,
             net_tx_peak |-> 4096, net_rx_peak |-> 3072]

\* struct hub_info as command_dipatcher finds it
TheHub == [status |-> hub_status, users |-> users, acl |-> acl,
           stats |-> HubStats, calls |-> <<>>]

CmdInit ==
    /\ hub_status = "hub_status_running"
    /\ \E c \in Creds :
          users = [u \in Users |->
                     [nick |-> UserNick(u), cid |-> UserCid(u), addr |-> UserAddr(u),
                      credentials |-> IF u = 1 THEN c ELSE cred_guest,
                      connected |-> TRUE]]
    /\ acl = [nicks |-> {}, cids |-> {}]
    /\ last = [user |-> NULL_USER, message |-> "", cmd |-> NULL_CMD,
               entry |-> 0, ran |-> "none", rc |-> 0, clock |-> 0,
               online |-> Users, status |-> "hub_status_running"]
    /\ calls = <<>>

\* a connected user's chat line reaches command_dipatcher
Dispatch(user, message, D) ==
    /\ users[user].connected
    /\ hub_status # "crashed"
    /\ \E r \in {command_dipatcher(TheHub, user, message, D)} :
           /\ hub_status' = r.hub.status
           /\ users' = r.hub.users
           /\ acl' = r.hub.acl
           /\ calls' = r.hub.calls
           /\ last' = [user |-> user, message |-> message, cmd |-> r.cmd,
                       entry |-> r.entry, ran |-> r.ran, rc |-> r.rc,
                       clock |-> D,
                       online |-> {u \in Users : users[u].connected},
                       status |-> hub_status]

DispatchStep ==
    \E user \in Users, message \in Lines :
        \E D \in ClockFor(message) : Dispatch(user, message, D)

CmdNext == DispatchStep /\ UNCHANGED <<rq_vars, sq_vars>>

(***************************************************************************)
(*                           The specifications                            *)
(***************************************************************************)

\* the hub of the buffering specifications: every user a guest
CmdIdle == CmdInit /\ \A u \in Users : users[u].credentials = cred_guest

InitRecvq == RqInit /\ SqInit /\ CmdIdle
InitSendq == RqInit /\ SqInit /\ CmdIdle
InitCmd   == RqInit /\ SqInit /\ CmdInit

SpecRecvq == InitRecvq /\ [][RqNext]_vars
SpecSendq == InitSendq /\ [][SqNext]_vars
SpecSendqLife == InitSendq /\ [][SqLifeNext]_vars

\* the event loop keeps calling hub_sendq_send while messages are pending,
\* and the write function does not refuse for ever
SpecSendqFair ==
    /\ InitSendq
    /\ [][SqNext]_vars
    /\ WF_vars(DrainAccepting /\ UNCHANGED <<rq_vars, cmd_vars>>)
SpecCmd   == InitCmd /\ [][CmdNext]_vars

(***************************************************************************)
(*                               The claims                                *)
(***************************************************************************)

\* the bytes of the messages in l, in order
RECURSIVE Stream(_)
Stream(l) == IF l = <<>> THEN <<>> ELSE cache(Head(l), msgs) \o Stream(Tail(l))

\* the bytes the queue still owes: the rest of the head, then the others
Unsent ==
    IF sq_queue = <<>> THEN <<>>
    ELSE Drop(cache(Head(sq_queue), msgs), sq_offset) \o Stream(Tail(sq_queue))

\* the route_to_user calls of the last dispatch
Routed == SelectSeq(calls, LAMBDA c : c.op = "route_to_user")

\* the calls of the last dispatch that change the hub
Mutations == SelectSeq(calls, LAMBDA c : c.op # "route_to_user")

\* whether the last dispatch had a parsed command
Parsed == last.cmd # NULL_CMD

\* the first token of a line, "" when it has none
FirstToken(message) ==
    LET t == split_tokens(message, Sep, FALSE)
    IN  IF t = <<>> THEN "" ELSE Head(t)

\* how often the character c occurs in s
CountChar(s, c) == Cardinality({i \in 1..Len(s) : CharAt(s, i) = c})

\* the one status the last dispatch sent, to its invoker
OnlyStatus(text) == calls = << Call("route_to_user", last.user, text) >>

\* C1: a parsed prefix that is a row's prefix, from a user whose credentials
\* are below the row's, gets "*** <prefix>: Access denied." and nothing
\* else, whatever the number of arguments: the function that ran is
\* command_access_denied, not the usage message and not the handler.
C1_AccessDeniedBeforeArity ==
    \A e \in Entries :
        (/\ Parsed
         /\ last.cmd.prefix = command_handlers[e].prefix
         /\ users[last.user].credentials < command_handlers[e].cred)
        => /\ last.ran = "command_access_denied"
           /\ OnlyStatus("*** " \o command_handlers[e].prefix \o ": Access denied.")

\* C1 witness: a guest sent kick with exactly the one argument it needs and
\* was denied
C1_Witness_DeniedWithRightArity ==
    /\ Parsed
    /\ last.cmd.prefix = "kick"
    /\ Len(last.cmd.args) = 1
    /\ users[last.user].credentials = cred_guest
    /\ last.ran = "command_access_denied"

\* C2 (as stated): a command is parsed only from a line whose first token
\* starts with the marker '!' and has a character after it; any other line
\* parses to nothing, sends nothing and runs nothing.
C2_MarkerRequired ==
    LET tok == FirstToken(last.message)
        ok  == Len(tok) >= 2 /\ CharAt(tok, 1) = "!"
    IN  /\ Parsed => ok
        /\ (last.user # NULL_USER /\ ~ok) => (last.ran = "none" /\ calls = <<>>)

\* C3: kick or ban from a user of operator rank or more whose first
\* argument is that user's own nickname disconnects nobody, bans nobody,
\* and sends the invoker the refusal.
C3_SelfTargetRejected ==
    (/\ Parsed
     /\ last.cmd.prefix \in {"kick", "ban"}
     /\ users[last.user].credentials >= cred_operator
     /\ Len(last.cmd.args) >= 1
     /\ last.cmd.args[1] = UserNick(last.user))
    => /\ Mutations = <<>>
       /\ users[last.user].connected
       /\ OnlyStatus(IF last.cmd.prefix = "kick"
                     THEN "*** kick: Cannot kick yourself"
                     ELSE "*** ban: Cannot kick/ban yourself")

\* C3 witness: an operator or better named itself in a kick
C3_Witness_SelfKick ==
    /\ Parsed
    /\ last.cmd.prefix = "kick"
    /\ users[last.user].credentials >= cred_operator
    /\ Len(last.cmd.args) >= 1
    /\ last.cmd.args[1] = UserNick(last.user)
    /\ calls # <<>>

\* C4: what the write function has accepted is a prefix of the bytes of the
\* enqueued messages in enqueue order: no message overtakes another and
\* none is interleaved with another.
C4_SendqFifo == IsPrefix(wire, Stream(enqueued))

\* C4 witness: two different messages, the first longer than a byte, were
\* queued and both are on the wire, which took three writes or more
C4_Witness_TwoMessagesSent ==
    /\ Len(enqueued) = 2
    /\ enqueued[1] # enqueued[2]
    /\ msgs[enqueued[1]].length >= 2
    /\ wire = Stream(enqueued)
    /\ w_calls >= 3

\* C5: the bytes accepted so far followed by the bytes the queue still owes
\* are exactly the enqueued bytes, so no byte is accepted twice and none is
\* skipped; and once as many bytes are accepted as were enqueued the list
\* is empty.
C5_PartialWriteResumption ==
    /\ wire \o Unsent = Stream(enqueued)
    /\ (Len(wire) = Len(Stream(enqueued))) => sq_queue = <<>>

\* C5 witness: every accepting call of the write function took one byte,
\* messages of two bytes among them, and everything enqueued is on the wire
C5_Witness_OneByteAtATime ==
    /\ Len(enqueued) >= 2
    /\ \E i \in 1..Len(enqueued) : msgs[enqueued[i]].length >= 2
    /\ w_calls = Len(wire)
    /\ wire = Stream(enqueued)
    /\ sq_queue = <<>>

\* C6 (as stated): hub_sendq_get_bytes is the number of enqueued bytes the
\* write function has not yet accepted.
C6_UnsentBytesAccounting ==
    hub_sendq_get_bytes(TheQueue) = Len(Stream(enqueued)) - Len(wire)

\* C7: a row that takes arguments, a user allowed to use it: with fewer
\* arguments than the row needs the usage message is sent, with as many
\* placeholders as the row needs arguments, and the handler does not run;
\* with enough arguments, extra ones included, the handler runs.
C7_ArityMismatchUsage ==
    \A e \in Entries :
        LET h == command_handlers[e]
        IN  (/\ Parsed
             /\ last.cmd.prefix = h.prefix
             /\ MinArgs(h) >= 1
             /\ users[last.user].credentials >= h.cred)
            => IF Len(last.cmd.args) < MinArgs(h)
               THEN /\ last.ran = "command_arg_mismatch"
                    /\ Len(calls) = 1
                    /\ calls[1].op = "route_to_user"
                    /\ calls[1].user = last.user
                    /\ IsPrefix("*** " \o h.prefix \o ": Use: !" \o h.prefix \o " <",
                                calls[1].text)
                    /\ CountChar(calls[1].text, "<") = MinArgs(h)
                    /\ CountChar(calls[1].text, ">") = MinArgs(h)
               ELSE last.ran = h.handler

\* C7 witness: an operator or better sent kick with no argument and got the
\* usage message
C7_Witness_KickWithoutArgument ==
    /\ Parsed
    /\ last.cmd.prefix = "kick"
    /\ last.cmd.args = <<>>
    /\ users[last.user].credentials >= cred_operator
    /\ last.ran = "command_arg_mismatch"

\* C8 (as stated): a parsed prefix that is no row's prefix gets
\* "*** <prefix>: Command not found" with the prefix as it was sent, and no
\* handler runs; a prefix that is a row's prefix never gets it.
C8_NotFoundNamesPrefix ==
    Parsed =>
        IF last.cmd.prefix \in RegisteredNames
        THEN last.ran # "command_not_found"
        ELSE /\ last.ran = "command_not_found"
             /\ OnlyStatus("*** " \o last.cmd.prefix \o ": Command not found")

\* C9: a dispatch routes one status when the line parsed and none when it
\* did not, and only to the user who sent the line.
C9_OneStatusToInvoker ==
    /\ Len(Routed) = (IF Parsed THEN 1 ELSE 0)
    /\ \A i \in 1..Len(Routed) : Routed[i].user = last.user
    /\ ~Parsed => calls = <<>>

\* C9 witness: a kick that disconnected another user sent its one status to
\* the invoker
C9_Witness_KickReportsToInvoker ==
    /\ Parsed
    /\ last.ran = "command_kick"
    /\ Len(Mutations) = 1
    /\ Mutations[1].user # last.user
    /\ Len(Routed) = 1

\* whether entries i, i+1, i+2 of the log are replace, replace, take
SetSetGet(i) ==
    /\ rq_log[i].op = "set" /\ rq_log[i + 1].op = "set" /\ rq_log[i + 2].op = "get"

\* whether entries i, i+1 of the log are take, take, and the second was empty
SecondTakeEmpty(i) ==
    (rq_log[i].op = "get" /\ rq_log[i + 1].op = "get")
    => (rq_log[i + 1].out = <<>> /\ rq_log[i + 1].ret = 0)

\* C10 (as stated): replace(A), replace(B), take() hands out exactly B; a
\* take right after a take hands out nothing.
C10_ReplaceThenTake_AsStated ==
    /\ \A i \in 1..(Len(rq_log) - 2) :
          SetSetGet(i) => rq_log[i + 2].out = rq_log[i + 1].arg
    /\ \A i \in 1..(Len(rq_log) - 1) : SecondTakeEmpty(i)

\* C10 (amended): replace(A), replace(B), take() hands out exactly B when
\* the second replace stored its copy (it returned the length of B), and
\* nothing when the copy could not be allocated (it returned 0); never A
\* and never A followed by B.  A take right after a take hands out nothing.
C10_ReplaceThenTake ==
    /\ \A i \in 1..(Len(rq_log) - 2) :
          SetSetGet(i) =>
             /\ rq_log[i + 1].ret \in {0, Len(rq_log[i + 1].arg)}
             /\ rq_log[i + 2].out = (IF rq_log[i + 1].ret = Len(rq_log[i + 1].arg)
                                     THEN rq_log[i + 1].arg ELSE <<>>)
             /\ rq_log[i + 2].ret = Len(rq_log[i + 2].out)
    /\ \A i \in 1..(Len(rq_log) - 1) : SecondTakeEmpty(i)

\* C10 witness: two different non-empty chunks were stored one after the
\* other and the take handed out the second
C10_Witness_SecondChunkTaken ==
    \E i \in 1..(Len(rq_log) - 2) :
        /\ SetSetGet(i)
        /\ rq_log[i].ret > 0 /\ rq_log[i + 1].ret > 0
        /\ rq_log[i].arg # rq_log[i + 1].arg
        /\ rq_log[i + 2].out = rq_log[i + 1].arg

\* C11: while the queue exists, the offset is at least 0 and less than the
\* length of the head message when a message is pending, and 0 when none
\* is, after any enqueues, drains and cancels.
C11_OffsetInvariant ==
    sq_live =>
        IF sq_queue # <<>>
        THEN 0 <= sq_offset /\ sq_offset < msgs[Head(sq_queue)].length
        ELSE sq_offset = 0

\* C11 witness: a message was cancelled and the head is now half-sent
C11_Witness_HalfSentAfterCancel ==
    /\ sq_live
    /\ kept # enqueued
    /\ sq_queue # <<>>
    /\ sq_offset > 0

\* the sum of the full lengths of the messages in l
RECURSIVE SumLengths(_)
SumLengths(l) ==
    IF l = <<>> THEN 0 ELSE msgs[Head(l)].length + SumLengths(Tail(l))

\* C12 (as stated): while the queue exists, q->size is the sum of the full
\* lengths of the pending messages, the head counted whole, after any
\* enqueues, drains and cancels of queued messages.
C12_TotalBytesInvariant == sq_live => sq_size = SumLengths(sq_queue)

\* C18 (as stated): as long as no head was cancelled, what the write
\* function accepted followed by what the queue still owes is the bytes of
\* the uncancelled messages in enqueue order: nothing accepted is offered
\* again.
C18_NoResendAcrossCancel ==
    (sq_live /\ ~head_cancelled) => wire \o Unsent = Stream(kept)

\* C19 (as stated): every pending occurrence of a message is backed by a
\* reference of its own, a released message is pending nowhere, and
\* msg->length is never read from a message the queue has released.
C19_ReferenceSafety ==
    /\ \A m \in MsgIds :
          /\ msgs[m].state = "live" => OutsideRefs(m) >= 0
          /\ msgs[m].state = "freed" => list_count(sq_queue, m) = 0
          /\ msgs[m].state = "none" => list_count(sq_queue, m) = 0
    /\ ~stale_read

\* the sum of the positive results in a log of calls of the write function
RECURSIVE SumAccepted(_)
SumAccepted(log) ==
    IF log = <<>> THEN 0
    ELSE (IF Head(log)[2] > 0 THEN Head(log)[2] ELSE 0) + SumAccepted(Tail(log))

\* C17: a drain of an empty queue returns 0 without a call of the write
\* function; a call that returns <= 0 or less than it was offered is the
\* last of the drain; a call that takes the whole slice pops the head and
\* the next message is offered; the drain returns the sum of the positive
\* results of its calls.
C17_DrainStoppingRules ==
    LET pre  == sq_seen.queue
        n    == Len(sq_log)
        Full(i) == sq_log[i][2] = sq_log[i][1]
        pops == Cardinality({i \in 1..n : Full(i)})
    IN  /\ pre = <<>> => (sq_log = <<>> /\ sq_ret = 0)
        /\ pre # <<>> => n >= 1
        /\ n <= Len(pre)
        \* the i-th call is offered what is left of the i-th pending message
        /\ \A i \in 1..n :
              sq_log[i][1] = msgs[pre[i]].length
                               - (IF i = 1 THEN sq_seen.offset ELSE 0)
        \* no call follows one that took less than it was offered
        /\ \A i \in 1..(n - 1) : Full(i)
        \* a call that took all it was offered pops the head and goes on
        /\ sq_seen.left = SubSeq(pre, pops + 1, Len(pre))
        /\ (n >= 1 /\ Full(n)) => n = Len(pre)
        /\ sq_ret = SumAccepted(sq_log)

\* C17 witness: a drain wrote one message whole and a part of the next
C17_Witness_StoppedOnShortWrite ==
    /\ Len(sq_log) = 2
    /\ sq_log[1][2] = sq_log[1][1]
    /\ sq_log[2][2] > 0
    /\ sq_log[2][2] < sq_log[2][1]
    /\ sq_ret = sq_log[1][2] + sq_log[2][2]

\* C20 (as stated): when drains go on and the write function keeps accepting
\* bytes, from some time on every enqueued message is on the wire, the
\* list is empty and hub_sendq_get_bytes is 0.
C20_DrainProgress ==
    <>[](/\ sq_queue = <<>>
         /\ wire = Stream(enqueued)
         /\ hub_sendq_get_bytes(TheQueue) = 0)

\* what of C20 does not depend on q->size: every enqueued message ends up
\* on the wire and the list ends up empty
DrainEmptiesList == <>[](sq_queue = <<>> /\ wire = Stream(enqueued))


\* whether the last dispatch was of a line whose parsed prefix is the
\* prefix of the row of handler `name`
Invoked(name) ==
    /\ Parsed
    /\ \E e \in Entries : /\ command_handlers[e].handler = name
                          /\ last.cmd.prefix = command_handlers[e].prefix

\* the position of the first call of `op` on user t in the last dispatch,
\* 0 when there is none
CallIndex(op, t) ==
    LET at == {i \in 1..Len(calls) : calls[i].op = op /\ calls[i].user = t}
    IN  IF at = {} THEN 0 ELSE CHOOSE i \in at : \A j \in at : i <= j

\* C13: a ban dispatched by a user of at least operator credentials whose
\* first argument is the nickname of a connected user other than the
\* invoker disconnects that user and then registers the ban of the nickname
\* and the ban of the CID in the ACL: hub_disconnect_user is called before
\* acl_user_ban_nick and acl_user_ban_cid, each once and on that user, and
\* the user is then disconnected with nickname and CID in the ACL.  In
\* every state the ACL holds a user's nickname exactly when it holds the
\* user's CID: no ban records one of the two alone.
C13_BanDisconnectsThenBansBoth ==
    /\ \A t \in Users :
          (/\ Invoked("command_ban")
           /\ users[last.user].credentials >= cred_operator
           /\ last.cmd.args # <<>>
           /\ Head(last.cmd.args) = UserNick(t)
           /\ t \in last.online
           /\ t # last.user)
          => /\ last.ran = "command_ban"
             /\ Mutations = << Call("hub_disconnect_user", t, "quit_kicked"),
                               Call("acl_user_ban_nick", t, UserNick(t)),
                               Call("acl_user_ban_cid", t, UserCid(t)) >>
             /\ CallIndex("hub_disconnect_user", t) > 0
             /\ CallIndex("hub_disconnect_user", t) < CallIndex("acl_user_ban_nick", t)
             /\ CallIndex("hub_disconnect_user", t) < CallIndex("acl_user_ban_cid", t)
             /\ ~users[t].connected
             /\ UserNick(t) \in acl.nicks
             /\ UserCid(t) \in acl.cids
    /\ \A t \in Users : UserNick(t) \in acl.nicks <=> UserCid(t) \in acl.cids
    /\ acl.nicks \subseteq {UserNick(t) : t \in Users}
    /\ acl.cids \subseteq {UserCid(t) : t \in Users}

\* an operator has banned another connected user
C13_Witness_OperatorBannedGuest ==
    /\ last.ran = "command_ban"
    /\ users[last.user].credentials = cred_operator
    /\ \E t \in Users \ {last.user} :
          /\ t \in last.online
          /\ last.cmd.args # <<>>
          /\ Head(last.cmd.args) = UserNick(t)
          /\ ~users[t].connected
          /\ UserNick(t) \in acl.nicks


\* the line of the help text for row e
HelpLine(e) ==
    "!" \o command_handlers[e].prefix \o " - " \o command_handlers[e].description
        \o "\n"

\* the lines of the rows in the sequence es, one after the other
RECURSIVE HelpLines(_)
HelpLines(es) == IF es = <<>> THEN "" ELSE HelpLine(Head(es)) \o HelpLines(Tail(es))

\* the rows a user of credentials c may use, in the order of declaration
Allowed(c) ==
    SelectSeq([i \in 1..(Len(command_handlers) - 1) |-> i],
              LAMBDA e : command_handlers[e].cred <= c)

\* the text of the one status the last dispatch sent
StatusText == IF Len(calls) = 1 THEN calls[1].text ELSE ""

\* C14: help is filtered by credentials.  A help line dispatched by a user
\* of credentials c >= cred_guest sends that user one status, "*** help:
\* Available commands:" followed by the lines "!<prefix> - <description>"
\* of exactly the rows whose cred is at most c, in the order of the table:
\* a row's line is in the text if and only if its cred is at most c.  For
\* c = cred_operator the text has no line for stats, reload or shutdown.
C14_HelpFilteredByCredentials ==
    (/\ Invoked("command_help")
     /\ users[last.user].credentials >= cred_guest)
    => LET c == users[last.user].credentials
       IN  /\ last.ran = "command_help"
           /\ OnlyStatus("*** help: Available commands:\n" \o HelpLines(Allowed(c)))
           /\ \A e \in Entries :
                 strstr(StatusText, HelpLine(e)) > 0 <=> command_handlers[e].cred <= c
           /\ c = cred_operator =>
                 \A name \in {"stats", "reload", "shutdown"} :
                     strstr(StatusText, "!" \o name) = 0

\* an operator asked for help and was shown kick but not shutdown
C14_Witness_OperatorHelp ==
    /\ last.ran = "command_help"
    /\ users[last.user].credentials = cred_operator
    /\ strstr(StatusText, "!kick - ") > 0
    /\ strstr(StatusText, "!shutdown") = 0


\* a decimal digit
Digit(n) == SubSeq("0123456789", n + 1, n + 1)

\* a number below 100 in two digits
TwoDigits(n) == Digit(n \div 10) \o Digit(n % 10)

\* whole days, and the hours and minutes left over, of t seconds
WholeDays(t)   == t \div 86400
HoursOfDay(t)  == (t - 86400 * WholeDays(t)) \div 3600
MinutesOfHour(t) == (t - 86400 * WholeDays(t) - 3600 * HoursOfDay(t)) \div 60

\* the last dispatch was an uptime line from a user who may use it
UptimeAsked ==
    /\ Invoked("command_uptime")
    /\ users[last.user].credentials >= cred_guest

\* what follows "*** uptime: " in the status sent
UptimeText == SubSeq(StatusText, Len("*** uptime: ") + 1, Len(StatusText))

\* the rule of the uptime text: the status is "*** uptime: ", a day segment
\* exactly when a whole day has passed, and hours and minutes in two
\* digits each
UptimeRule ==
    UptimeAsked =>
      LET t == last.clock
          hhmm == TwoDigits(HoursOfDay(t)) \o ":" \o TwoDigits(MinutesOfHour(t))
      IN  /\ last.ran = "command_uptime"
          /\ Len(calls) = 1
          /\ calls[1] = Call("route_to_user", last.user, StatusText)
          /\ Take(StatusText, Len("*** uptime: ")) = "*** uptime: "
          /\ strstr(UptimeText, " day") > 0 <=> WholeDays(t) > 0
          /\ LastN(UptimeText, 5) = hhmm
          /\ WholeDays(t) = 0 => UptimeText = hhmm
          /\ WholeDays(t) = 1 => UptimeText = "1 day, " \o hhmm
          /\ WholeDays(t) > 1 =>
                UptimeText = uhub_itoa(WholeDays(t)) \o " days, " \o hhmm
          /\ t = 86340 => UptimeText = "23:59"

\* C15 as stated: 90061 seconds render as a day segment and "00:01"
C15_UptimeFormat_AsStated ==
    /\ UptimeRule
    /\ (UptimeAsked /\ last.clock = 90061) =>
          /\ strstr(UptimeText, " day") > 0
          /\ LastN(UptimeText, 5) = "00:01"

\* C15: the uptime text has a day segment exactly when at least one whole
\* day has passed, and hours and minutes are written in two digits each;
\* 23 hours 59 minutes render as "23:59".  90061 seconds are one day, one
\* hour, one minute and one second and render as "1 day, 01:01"; it is
\* 86461 seconds that render as "1 day, 00:01".
C15_UptimeFormat ==
    /\ UptimeRule
    /\ (UptimeAsked /\ last.clock = 90061) => UptimeText = "1 day, 01:01"
    /\ (UptimeAsked /\ last.clock = 86461) => UptimeText = "1 day, 00:01"

\* uptime was asked 90061 seconds after the start
C15_Witness_OneDayOneHour ==
    /\ last.ran = "command_uptime"
    /\ last.clock = 90061
    /\ UptimeText = "1 day, 01:01"


\* C16: hub->status changes only in a reload or shutdown dispatched by a
\* user of cred_admin or more.  A dispatch by a user below cred_admin
\* leaves the status as it found it, whatever the line, so that with no
\* admin among the users the status is hub_status_running for ever; a
\* reload by an admin sets hub_status_restart, a shutdown by an admin sets
\* hub_status_shutdown, and a dispatch of any other line leaves the status
\* as it was.
C16_StatusOnlyByAdmin ==
    /\ hub_status \in {"hub_status_running", "hub_status_restart",
                       "hub_status_shutdown"}
    /\ (\A u \in Users : users[u].credentials < cred_admin)
          => hub_status = "hub_status_running"
    /\ last.user # NULL_USER =>
          /\ users[last.user].credentials < cred_admin
                => hub_status = last.status
          /\ (Invoked("command_reload")
               /\ users[last.user].credentials >= cred_admin)
                => /\ hub_status = "hub_status_restart"
                   /\ last.ran = "command_reload"
          /\ (Invoked("command_shutdown")
               /\ users[last.user].credentials >= cred_admin)
                => /\ hub_status = "hub_status_shutdown"
                   /\ last.ran = "command_shutdown"
          /\ ~(Invoked("command_reload") \/ Invoked("command_shutdown"))
                => hub_status = last.status

\* an admin has shut the running hub down
C16_Witness_AdminShutdown ==
    /\ last.ran = "command_shutdown"
    /\ users[last.user].credentials = cred_admin
    /\ last.status = "hub_status_running"
    /\ hub_status = "hub_status_shutdown"

=============================================================================
